---- MODULE Spec2Model ----
(***************************************************************************)
(* The persisted multi-profile credential store of the trieve CLI and the  *)
(* commands that mutate it: login (upsert), profile switch (select),       *)
(* profile delete (remove) and organization switch.  One action is one     *)
(* CLI invocation: main's load and settings resolution followed by the     *)
(* command handler, run to completion (each process is short-lived and     *)
(* sequential).                                                            *)
(***************************************************************************)
EXTENDS Integers, Sequences, FiniteSets, TLC

VARIABLES store, last, flow, server, conns, channel, sent, req, extracted, procs

\* The store and the record of the last invocation.
cliVars == <<store, last>>

\* One interactive login: configure()'s position and locals (flow), the
\* listener task (server), the accepted connections and their tasks (conns),
\* the mpsc channel (channel) and the log of the tokens sent on it (sent).
authVars == <<flow, server, conns, channel, sent>>

\* extract_api_key on its own: its argument and its result.
pureVars == <<req, extracted>>

\* Invocations that overlap: each process's command, position and snapshot.
raceVars == <<procs>>

vars == <<store, last, flow, server, conns, channel, sent, req, extracted, procs>>

\* What a command run on its own leaves alone, and what a login's listener
\* and coordinator leave alone.
outsideCli == <<authVars, pureVars, raceVars>>

outsideAuth == <<cliVars, pureVars, raceVars>>

(***************************************************************************)
(* Bounds and value domains                                                *)
(***************************************************************************)

\* Invocations started in a run of overlapping invocations in the model.
MaxRuns == 3

\* Pieces a request target is put together from in the model.
MaxPieces == 4

\* Longest collection a login may persist in the model.
MaxProfiles == 3

\* Connections the listener accepts during one login in the model.
MaxConns == 2

\* uuid::Uuid::nil()
Nil == 0

\* An absent Option<String> argument.
None == "<none>"

ProdUrl == "https://api.trieve.ai"

\* Profile names a user types; "default" is the name of the default entry.
Names == {"default", "work"}

\* Organization ids the identity collaborator lists for a user.
IdentityOrgs == {1, 2}

\* Text given as the organization id argument of `organization switch`.
OrgArgs == {None, "not-a-uuid", "uuid-0", "uuid-1", "uuid-2"}

\* Credentials a login ends up with (flag, environment or browser token).
LoginKeys == {"tr-key"}

\* Server urls a login ends up with.
LoginUrls == {ProdUrl}

(***************************************************************************)
(* Data model (configure.rs)                                               *)
(***************************************************************************)

TrieveConfiguration(api_key, organization_id, api_url) ==
    [api_key |-> api_key, organization_id |-> organization_id, api_url |-> api_url]

TrieveProfileInner(name, settings, selected) ==
    [name |-> name, settings |-> settings, selected |-> selected]

DefaultConfiguration == TrieveConfiguration("", Nil, ProdUrl)

DefaultProfileInner == TrieveProfileInner("default", DefaultConfiguration, FALSE)

DefaultProfile == <<DefaultProfileInner>>

\* Settings the environment variables can describe (TRIEVE_NO_PROFILE=true).
EnvSettings == {TrieveConfiguration("tr-key", o, ProdUrl) : o \in {Nil, 1}}

\* What from_env() yields: settings, or an error.
EnvResults ==
    {[ok |-> TRUE, settings |-> s] : s \in EnvSettings}
    \cup {[ok |-> FALSE, settings |-> DefaultConfiguration]}

(***************************************************************************)
(* Persistence: confy::load(..).unwrap_or_default() and confy::store       *)
(***************************************************************************)

\* Mutant of Load: the fallback is a collection without entries.
Load_EmptyOnError(st) == IF st.file = "ok" THEN st.inner ELSE <<>>

\* The collection a command works on: the stored one, or the default
\* collection when the file is absent or unreadable.
Load(st) == IF st.file = "ok" THEN st.inner ELSE DefaultProfile

Stored(profiles) == [file |-> "ok", inner |-> profiles]

\* Mutant of FormatUuid: the id is written without the form the parser
\* expects.
FormatUuid_Bare(id) ==
    CASE id = Nil -> "0"
      [] id = 1   -> "1"
      [] OTHER    -> "2"

\* Serialize for uuid::Uuid: the text of an organization id.
FormatUuid(id) ==
    CASE id = Nil -> "uuid-0"
      [] id = 1   -> "uuid-1"
      [] OTHER    -> "uuid-2"

\* Deserialize for uuid::Uuid.
ReadUuid(text) ==
    CASE text = "uuid-0" -> [ok |-> TRUE, id |-> Nil]
      [] text = "uuid-1" -> [ok |-> TRUE, id |-> 1]
      [] text = "uuid-2" -> [ok |-> TRUE, id |-> 2]
      [] OTHER           -> [ok |-> FALSE, id |-> Nil]

\* Serialize for bool / Deserialize for bool.
FormatBool(b) == IF b THEN "true" ELSE "false"

ReadBool(text) == [ok |-> text \in {"true", "false"}, value |-> text = "true"]

\* The document confy::store writes for a collection: one table per entry,
\* every field as text.
TomlDocument(profiles) ==
    [i \in DOMAIN profiles |->
        [name     |-> profiles[i].name,
         settings |-> [api_key         |-> profiles[i].settings.api_key,
                       organization_id |-> FormatUuid(profiles[i].settings.organization_id),
                       api_url         |-> profiles[i].settings.api_url],
         selected |-> FormatBool(profiles[i].selected)]]

\* confy::load(..).unwrap_or_default() of a document: the collection it
\* spells, or the default collection when a field does not parse.
LoadDocument(document) ==
    IF \A i \in DOMAIN document :
          /\ ReadUuid(document[i].settings.organization_id).ok
          /\ ReadBool(document[i].selected).ok
    THEN [i \in DOMAIN document |->
            TrieveProfileInner(
                document[i].name,
                TrieveConfiguration(document[i].settings.api_key,
                                    ReadUuid(document[i].settings.organization_id).id,
                                    document[i].settings.api_url),
                ReadBool(document[i].selected).value)]
    ELSE DefaultProfile

(***************************************************************************)
(* main: resolution of the active settings                                 *)
(***************************************************************************)

\* Index of the first entry named name, 0 when there is none (iter().find).
FindByName(profiles, name) ==
    IF \E i \in DOMAIN profiles : profiles[i].name = name
    THEN CHOOSE i \in DOMAIN profiles :
            /\ profiles[i].name = name
            /\ \A j \in DOMAIN profiles : profiles[j].name = name => i <= j
    ELSE 0

\* Index of the first selected entry, 0 when there is none.
FindSelected(profiles) ==
    IF \E i \in DOMAIN profiles : profiles[i].selected
    THEN CHOOSE i \in DOMAIN profiles :
            /\ profiles[i].selected
            /\ \A j \in DOMAIN profiles : profiles[j].selected => i <= j
    ELSE 0

\* The invocation's environment and global flag: TRIEVE_NO_PROFILE, the
\* settings in the environment, --profile / TRIEVE_PROFILE.
Contexts ==
    {[no_profile |-> TRUE, env |-> e, profile |-> None] : e \in EnvResults}
    \cup {[no_profile |-> FALSE, env |-> [ok |-> FALSE, settings |-> DefaultConfiguration],
            profile |-> p] : p \in Names \cup {None}}

\* Mutant of ResolveSettings: a selected entry wins over --profile.
ResolveSettings_SelectedFirst(profiles, ctx) ==
    IF ctx.no_profile
    THEN IF ctx.env.ok
         THEN [ok |-> TRUE, how |-> "env", settings |-> ctx.env.settings]
         ELSE [ok |-> FALSE, how |-> "env_error", settings |-> DefaultConfiguration]
    ELSE IF FindSelected(profiles) # 0
    THEN [ok |-> TRUE, how |-> "selected",
          settings |-> profiles[FindSelected(profiles)].settings]
    ELSE IF ctx.profile # None
    THEN IF FindByName(profiles, ctx.profile) # 0
         THEN [ok |-> TRUE, how |-> "override",
               settings |-> profiles[FindByName(profiles, ctx.profile)].settings]
         ELSE [ok |-> FALSE, how |-> "profile_not_found",
               settings |-> DefaultConfiguration]
    ELSE [ok |-> TRUE, how |-> "default", settings |-> DefaultConfiguration]

\* main.rs: the active settings, or the reason the process exits first.
ResolveSettings(profiles, ctx) ==
    IF ctx.no_profile
    THEN IF ctx.env.ok
         THEN [ok |-> TRUE, how |-> "env", settings |-> ctx.env.settings]
         ELSE [ok |-> FALSE, how |-> "env_error", settings |-> DefaultConfiguration]
    ELSE IF ctx.profile # None
    THEN IF FindByName(profiles, ctx.profile) # 0
         THEN [ok |-> TRUE, how |-> "override",
               settings |-> profiles[FindByName(profiles, ctx.profile)].settings]
         ELSE [ok |-> FALSE, how |-> "profile_not_found",
               settings |-> DefaultConfiguration]
    ELSE IF FindSelected(profiles) # 0
         THEN [ok |-> TRUE, how |-> "selected",
               settings |-> profiles[FindSelected(profiles)].settings]
         ELSE [ok |-> TRUE, how |-> "default", settings |-> DefaultConfiguration]

(***************************************************************************)
(* The record of the last invocation                                       *)
(***************************************************************************)

\* op: the command; outcome: how it ended; exit: the process status;
\* saved: whether confy::store ran; name: the profile name argument;
\* how/settings: the active settings and where they came from; config: the
\* settings the command built; asked: whether the overwrite confirmation
\* was put to the user; answer: the user's answer to it; identity: FALSE
\* when the command's get_user call failed; shown: the rows profile list
\* printed.
Invocation(op, outcome, exit, saved, name, how, settings, config, asked, answer) ==
    [op |-> op, outcome |-> outcome, exit |-> exit, saved |-> saved,
     name |-> name, how |-> how, settings |-> settings, config |-> config,
     asked |-> asked, answer |-> answer, identity |-> TRUE, shown |-> <<>>]

\* An invocation that ends with exit status 1 before anything is saved.
Failed(op, outcome, name) ==
    Invocation(op, outcome, 1, FALSE, name, None, DefaultConfiguration,
               DefaultConfiguration, FALSE, FALSE)

(***************************************************************************)
(* login (configure.rs)                                                    *)
(***************************************************************************)

\* profiles.retain(|p| p.name != profile_name)
Retain(profiles, name) == SelectSeq(profiles, LAMBDA p : p.name # name)

\* Vec::dedup_by_key(|p| p.name): of each run of consecutive entries with
\* the same name only the first stays.
RECURSIVE DedupByKey(_)
DedupByKey(profiles) ==
    IF Len(profiles) <= 1 THEN profiles
    ELSE LET rest == DedupByKey(Tail(profiles))
         IN  IF Head(profiles).name = Head(rest).name
             THEN <<Head(profiles)>> \o Tail(rest)
             ELSE <<Head(profiles)>> \o rest

\* Mutant of ClearSelected: the flags stay as they are.
ClearSelected_Keeps(profiles) == profiles

\* profiles.iter_mut().for_each(|p| p.selected = false)
ClearSelected(profiles) ==
    [i \in DOMAIN profiles |-> [profiles[i] EXCEPT !.selected = FALSE]]

\* The condition under which login asks "Profile already exists. Overwrite?".
AsksOverwrite(profiles, name) ==
    \E i \in DOMAIN profiles :
        profiles[i].name = name /\ profiles[i].settings.organization_id # Nil

\* The collection login persists once it proceeds.
Upsert(profiles, name, config, asked) ==
    Append(ClearSelected(DedupByKey(IF asked THEN Retain(profiles, name) ELSE profiles)),
           TrieveProfileInner(name, config, TRUE))

\* Mutant of LoginProceeds: the user's refusal is ignored.
LoginProceeds_IgnoresAnswer(asked, answer) == TRUE

\* Whether login goes on after the confirmation: it was not asked, or the
\* user agreed (otherwise std::process::exit(0)).
LoginProceeds(asked, answer) == ~asked \/ answer

\* Mutant of IdentityFatal: a failed get_user does not end the process.
IdentityFatal_Ignored(identity_ok) == FALSE

\* get_user: a failed get_me ends the process with std::process::exit(1).
IdentityFatal(identity_ok) == ~identity_ok

\* trieve login: api_key, api_url and organization_id are what configure()
\* ends up with; identity_ok is whether get_user succeeded; answer is the
\* user's reply if the overwrite confirmation is asked.  limit caps the
\* length of the collection a login persists in the model.
LoginUpTo(limit, ctx, api_key, api_url, identity_ok, organization_id, profile_name, answer) ==
    LET r        == ResolveSettings(Load(store), ctx)
        config   == TrieveConfiguration(api_key, organization_id, api_url)
        profiles == Load(store)
        asked    == AsksOverwrite(profiles, profile_name)
        new      == Upsert(profiles, profile_name, config, asked)
    IN  IF ~r.ok
        THEN /\ last' = Failed("login", r.how, profile_name)
             /\ UNCHANGED store
        ELSE IF IdentityFatal(identity_ok)
        THEN /\ last' = [Failed("login", "identity_error", profile_name)
                            EXCEPT !.identity = identity_ok]
             /\ UNCHANGED store
        ELSE IF ~LoginProceeds(asked, answer)
        THEN /\ last' = [Invocation("login", "cancelled", 0, FALSE, profile_name,
                                    None, DefaultConfiguration, config, asked, answer)
                            EXCEPT !.identity = identity_ok]
             /\ UNCHANGED store
        ELSE /\ Len(new) <= limit
             /\ store' = Stored(new)
             /\ last' = [Invocation("login", "ok", 0, TRUE, profile_name, None,
                                    DefaultConfiguration, config, asked, asked /\ answer)
                            EXCEPT !.identity = identity_ok]

Login(ctx, api_key, api_url, identity_ok, organization_id, profile_name, answer) ==
    LoginUpTo(MaxProfiles, ctx, api_key, api_url, identity_ok, organization_id,
              profile_name, answer)

(***************************************************************************)
(* profile switch / profile delete (profile.rs)                            *)
(***************************************************************************)

\* Mutant of ProfileFound: the missing-name exit is left out.
ProfileFound_NoCheck(profiles, name) == TRUE

\* profiles.iter().find(|p| p.name == profile_name) found an entry.
ProfileFound(profiles, name) == FindByName(profiles, name) # 0

\* The entry find() returned is selected.
FoundIsSelected(profiles, name) ==
    /\ FindByName(profiles, name) # 0
    /\ profiles[FindByName(profiles, name)].selected

\* Mutant of SelectByName: the other entries keep their flag.
SelectByName_KeepsOthers(profiles, name) ==
    [i \in DOMAIN profiles |->
        TrieveProfileInner(profiles[i].name, profiles[i].settings,
                           profiles[i].selected \/ profiles[i].name = name)]

\* switch_profile's map: selected exactly on the entries named name.
SelectByName(profiles, name) ==
    [i \in DOMAIN profiles |->
        TrieveProfileInner(profiles[i].name, profiles[i].settings,
                           profiles[i].name = name)]

\* trieve profile switch <profile_name>
SwitchProfile(ctx, profile_name) ==
    LET profiles == Load(store)
        r        == ResolveSettings(profiles, ctx)
    IN  IF ~r.ok
        THEN /\ last' = Failed("switch_profile", r.how, profile_name)
             /\ UNCHANGED store
        ELSE IF ~ProfileFound(profiles, profile_name)
        THEN /\ last' = Failed("switch_profile", "not_found", profile_name)
             /\ UNCHANGED store
        ELSE /\ store' = Stored(SelectByName(profiles, profile_name))
             /\ last' = Invocation("switch_profile", "ok", 0, TRUE, profile_name,
                                   None, DefaultConfiguration, DefaultConfiguration,
                                   FALSE, FALSE)

\* delete_profile refuses: the found entry is selected and nothing remains.
RefusesLast(profiles, name) ==
    FoundIsSelected(profiles, name) /\ Retain(profiles, name) = <<>>

\* delete_profile's filter, with the first remaining entry promoted when the
\* found entry was selected.
Remove(profiles, name) ==
    LET remaining == Retain(profiles, name)
    IN  IF FoundIsSelected(profiles, name) /\ remaining # <<>>
        THEN [remaining EXCEPT ![1].selected = TRUE]
        ELSE remaining

\* trieve profile delete <profile_name>
DeleteProfile(ctx, profile_name) ==
    LET profiles == Load(store)
        r        == ResolveSettings(profiles, ctx)
    IN  IF ~r.ok
        THEN /\ last' = Failed("delete_profile", r.how, profile_name)
             /\ UNCHANGED store
        ELSE IF ~ProfileFound(profiles, profile_name)
        THEN /\ last' = Failed("delete_profile", "not_found", profile_name)
             /\ UNCHANGED store
        ELSE IF RefusesLast(profiles, profile_name)
        THEN /\ last' = Failed("delete_profile", "last_profile", profile_name)
             /\ UNCHANGED store
        ELSE /\ store' = Stored(Remove(profiles, profile_name))
             /\ last' = Invocation("delete_profile", "ok", 0, TRUE, profile_name,
                                   None, DefaultConfiguration, DefaultConfiguration,
                                   FALSE, FALSE)

\* Mutant of Precedes: the comparison a.selected.cmp(&b.selected).
Precedes_Ascending(a, b) == ~a.selected /\ b.selected

\* list_profiles' comparator b.selected.cmp(&a.selected) is Less: a sorts
\* before b.
Precedes(a, b) == a.selected /\ ~b.selected

\* One insertion of a stable sort: entry goes before the first element it
\* precedes, after everything else.
Insert(sorted, entry) ==
    LET later == {i \in DOMAIN sorted : Precedes(entry, sorted[i])}
        at    == IF later = {} THEN Len(sorted) + 1
                 ELSE CHOOSE i \in later : \A j \in later : i <= j
    IN  SubSeq(sorted, 1, at - 1) \o <<entry>> \o SubSeq(sorted, at, Len(sorted))

\* profiles.sort_by(|a, b| b.selected.cmp(&a.selected)): a stable sort.
RECURSIVE SortBySelected(_)
SortBySelected(profiles) ==
    IF profiles = <<>> THEN <<>>
    ELSE Insert(SortBySelected(SubSeq(profiles, 1, Len(profiles) - 1)),
                profiles[Len(profiles)])

\* trieve profile list: the table rows are the sorted copy of the loaded
\* collection; nothing is stored.
ListProfiles(ctx) ==
    LET profiles == Load(store)
        r        == ResolveSettings(profiles, ctx)
    IN  /\ last' = IF r.ok
                   THEN [Invocation("list_profiles", "ok", 0, FALSE, None, r.how,
                                    r.settings, DefaultConfiguration, FALSE, FALSE)
                           EXCEPT !.shown = SortBySelected(profiles)]
                   ELSE Failed("list_profiles", r.how, None)
        /\ UNCHANGED store

(***************************************************************************)
(* organization switch (organization.rs)                                   *)
(***************************************************************************)

\* str::parse::<Uuid>() of the organization id argument.
ParseUuid(text) ==
    CASE text = "uuid-0" -> [ok |-> TRUE, id |-> Nil]
      [] text = "uuid-1" -> [ok |-> TRUE, id |-> 1]
      [] text = "uuid-2" -> [ok |-> TRUE, id |-> 2]
      [] OTHER           -> [ok |-> FALSE, id |-> Nil]

\* Mutant of NewConfig: the credential is not carried over.
NewConfig_DropsKey(settings, organization_id) ==
    TrieveConfiguration("", organization_id, settings.api_url)

\* new_config: the active settings with organization_id replaced.
NewConfig(settings, organization_id) ==
    TrieveConfiguration(settings.api_key, organization_id, settings.api_url)

\* Mutant of SwitchSettings: entries that do not match keep their flag.
SwitchSettings_KeepsSelected(profiles, settings, new_config) ==
    [i \in DOMAIN profiles |->
        IF profiles[i].settings = settings
        THEN TrieveProfileInner(profiles[i].name, new_config, TRUE)
        ELSE profiles[i]]

\* Mutant of SwitchSettings: the organization is replaced in every entry.
SwitchSettings_EveryEntry(profiles, settings, new_config) ==
    [i \in DOMAIN profiles |->
        TrieveProfileInner(profiles[i].name,
                           NewConfig(profiles[i].settings, new_config.organization_id),
                           profiles[i].settings = settings)]

\* switch_organization's map over the loaded collection.
SwitchSettings(profiles, settings, new_config) ==
    [i \in DOMAIN profiles |->
        IF profiles[i].settings = settings
        THEN TrieveProfileInner(profiles[i].name, new_config, TRUE)
        ELSE TrieveProfileInner(profiles[i].name, profiles[i].settings, FALSE)]

\* trieve organization switch [organization_id]: with no argument the
\* organization is picked from those get_user lists (identity_ok, picked).
SwitchOrganization(ctx, arg, identity_ok, picked) ==
    LET profiles == Load(store)
        r        == ResolveSettings(profiles, ctx)
        parsed   == ParseUuid(arg)
        organization_id == IF arg = None THEN picked ELSE parsed.id
        new_config      == NewConfig(r.settings, organization_id)
    IN  IF ~r.ok
        THEN /\ last' = Failed("switch_organization", r.how, None)
             /\ UNCHANGED store
        ELSE IF arg = None /\ ~identity_ok
        THEN /\ last' = Failed("switch_organization", "identity_error", None)
             /\ UNCHANGED store
        ELSE IF arg # None /\ ~parsed.ok
        THEN /\ last' = Failed("switch_organization", "invalid_organization", None)
             /\ UNCHANGED store
        ELSE /\ store' = Stored(SwitchSettings(profiles, r.settings, new_config))
             /\ last' = Invocation("switch_organization", "ok", 0, TRUE, None,
                                   r.how, r.settings, new_config, FALSE, FALSE)

(***************************************************************************)
(* The commands that only use the active settings (main.rs)                *)
(***************************************************************************)

\* The dataset, api-key and organization create/delete commands: each passes
\* the active settings to the remote API and never touches the store.
SettingsCommands == {"dataset", "organization_create"}

\* trieve dataset ... / trieve organization create ...
SettingsCommand(ctx, command) ==
    LET r == ResolveSettings(Load(store), ctx)
    IN  /\ last' = IF r.ok
                   THEN Invocation(command, "ok", 0, FALSE, None, r.how, r.settings,
                                   DefaultConfiguration, FALSE, FALSE)
                   ELSE Failed(command, r.how, None)
        /\ UNCHANGED store

(***************************************************************************)
(* extract_api_key (login_server.rs).  Text is a sequence of characters.   *)
(***************************************************************************)

\* Option<String>
Some(value) == [some |-> TRUE, value |-> value]

NoneString == [some |-> FALSE, value |-> <<>>]

\* char::is_whitespace on the characters the requests use.
WhiteSpace == {" ", "\t", "\n", "\r"}

\* The zero byte of the read buffer, as decoded by from_utf8_lossy.
NUL == "NUL"

Smallest(S) == CHOOSE x \in S : \A y \in S : x <= y

\* str::find: the start of the first occurrence of pattern, 0 when absent.
Find(text, pattern) ==
    LET hits == {i \in 1..(Len(text) - Len(pattern) + 1) :
                    SubSeq(text, i, i + Len(pattern) - 1) = pattern}
    IN  IF hits = {} THEN 0 ELSE Smallest(hits)

\* request.lines().next(): the text before the first line feed, without
\* the carriage return that precedes it; none for the empty text.
FirstLine(request) ==
    LET nl  == Find(request, <<"\n">>)
        end == IF nl = 0 THEN Len(request)
               ELSE IF nl > 1 /\ request[nl - 1] = "\r" THEN nl - 2
               ELSE nl - 1
    IN  IF request = <<>> THEN NoneString ELSE Some(SubSeq(request, 1, end))

\* str::split_whitespace: the maximal runs of non-whitespace, in order.
RECURSIVE SplitWhitespace(_)
SplitWhitespace(text) ==
    IF text = <<>> THEN <<>>
    ELSE IF text[1] \in WhiteSpace THEN SplitWhitespace(Tail(text))
    ELSE LET stops == {i \in 1..Len(text) : text[i] \in WhiteSpace}
             n     == IF stops = {} THEN Len(text) ELSE Smallest(stops) - 1
         IN  <<SubSeq(text, 1, n)>> \o SplitWhitespace(SubSeq(text, n + 1, Len(text)))

api_key_prefix == <<"a", "p", "i", "K", "e", "y", "=">>

\* Mutant of ExtractApiKey: the end of the value is the first '&' of the
\* whole target, not the first one after the marker.
ExtractApiKey_AmpAnywhere(request) ==
    LET request_line == FirstLine(request)
        words        == IF request_line.some
                        THEN SplitWhitespace(request_line.value) ELSE <<>>
    IN  IF ~request_line.some \/ Len(words) < 2 THEN NoneString
        ELSE LET url_part        == words[2]
                 start_pos       == Find(url_part, api_key_prefix)
                 value_start_pos == start_pos + Len(api_key_prefix)
                 amp             == Find(url_part, <<"&">>)
                 value_end_pos   == IF amp = 0 THEN Len(url_part) ELSE amp - 1
             IN  IF start_pos = 0 THEN NoneString
                 ELSE Some(SubSeq(url_part, value_start_pos, value_end_pos))

\* extract_api_key: the value of apiKey= in the second word of the first
\* line, up to the next '&' or the end of the word.
ExtractApiKey(request) ==
    LET request_line == FirstLine(request)
        words        == IF request_line.some
                        THEN SplitWhitespace(request_line.value) ELSE <<>>
    IN  IF ~request_line.some \/ Len(words) < 2 THEN NoneString
        ELSE LET url_part        == words[2]
                 start_pos       == Find(url_part, api_key_prefix)
                 value_start_pos == start_pos + Len(api_key_prefix)
                 rest            == SubSeq(url_part, value_start_pos, Len(url_part))
                 amp             == Find(rest, <<"&">>)
                 value_end_pos   == IF amp = 0 THEN Len(url_part)
                                    ELSE value_start_pos + amp - 2
             IN  IF start_pos = 0 THEN NoneString
                 ELSE Some(SubSeq(url_part, value_start_pos, value_end_pos))

\* The pieces of the request targets extract_api_key is applied to.
TargetPieces == {<<"/", "?">>, api_key_prefix, <<"A", "B">>, <<"&">>}

RECURSIVE TargetsOf(_)
TargetsOf(n) ==
    IF n = 0 THEN {<<>>}
    ELSE TargetsOf(n - 1) \cup {t \o p : t \in TargetsOf(n - 1), p \in TargetPieces}

\* How a target is placed in the text handed to extract_api_key: as the
\* second word of a full request line, as the last word of a text without
\* line end, on the line after the method, or as the only word.
Shapes == {"full", "bare", "next_line", "only_word"}

RequestText(shape, target) ==
    CASE shape = "full"      -> <<"G", "E", "T", " ">> \o target \o <<" ", "H", "T", "T", "P", "\r", "\n">>
      [] shape = "bare"      -> <<"G", "E", "T", " ">> \o target
      [] shape = "next_line" -> <<"G", "E", "T", "\r", "\n">> \o target \o <<" ", "x", "\r", "\n">>
      [] OTHER               -> target \o <<"\r", "\n">>

\* extract_api_key(&req_str) applied to the text in req.
Extract ==
    /\ ~extracted.applied
    /\ extracted' = [applied |-> TRUE, token |-> ExtractApiKey(req.text)]
    /\ UNCHANGED req

(***************************************************************************)
(* The callback listener (login_server.rs) and configure (configure.rs)    *)
(***************************************************************************)

\* Size of handle_read's buffer, scaled down from 4096 bytes.
BufLen == 32

GET == <<"G", "E", "T", " ", "/">>

HTTP == <<" ", "H", "T", "T", "P", "\r", "\n">>

\* What a client writes to the listener's port.
Requests ==
    [token     |-> GET \o <<"?">> \o api_key_prefix \o <<"k", "1">> \o HTTP,
     token_amp |-> GET \o <<"?">> \o api_key_prefix \o <<"k", "2", "&", "x">> \o HTTP,
     empty     |-> GET \o <<"?">> \o api_key_prefix \o HTTP,
     no_marker |-> GET \o HTTP,
     no_target |-> <<"G", "E", "T", "\r", "\n">>]

RequestIds == DOMAIN Requests

\* String::from_utf8_lossy(&buf): the bytes read followed by the zero bytes
\* of the rest of the buffer.
ReadBuffer(data) == data \o [i \in 1..(BufLen - Len(data)) |-> NUL]

\* extract_api_key(&req_str) for each request.
Token == [r \in RequestIds |-> ExtractApiKey(ReadBuffer(Requests[r]))]

\* configure has not returned a configuration.
Unconfigured == TrieveConfiguration(<<>>, Nil, ProdUrl)

\* The credential given with --api-key / TRIEVE_API_KEY.
GivenKey == <<"t", "r">>

\* Mutant of Alive: server.abort() also ends the connections' tasks.
Alive_UntilAbort == flow.pc # "exited" /\ server # "aborted"

\* The process still runs: std::process::exit and the end of main end
\* every task with it.
Alive == flow.pc # "exited"

\* rx lives from mpsc::channel to the end of configure's if block.
RxOpen == flow.pc \in {"prompt", "recv", "abort"}

Exit(status) == [flow EXCEPT !.pc = "exited", !.exit = status]

\* Mutant of NeedsListener: the listener block runs for every login.
NeedsListener_Always(key) == TRUE

\* configure: if api_key.is_none()
NeedsListener(key) == ~key.some

\* configure, up to the prompt: with no credential, create the channel and
\* spawn the listener task; otherwise go on to get_user.
Configure ==
    /\ flow.pc = "configure"
    /\ IF NeedsListener(flow.api_key)
       THEN /\ flow' = [flow EXCEPT !.pc = "prompt"]
            /\ server' = "bind"
       ELSE /\ flow' = [flow EXCEPT !.pc = "get_user"]
            /\ UNCHANGED server
    /\ UNCHANGED <<conns, channel, sent>>

\* The Enter prompt and open::that(auth_url); a failure to open the browser
\* only prints the URL.
OpenBrowser ==
    /\ flow.pc = "prompt"
    /\ flow' = [flow EXCEPT !.pc = "recv", !.browser = TRUE]
    /\ UNCHANGED <<server, conns, channel, sent>>

\* Mutant of Received: the newest value of the channel is taken.
Received_Newest(queue) == queue[Len(queue)]

\* rx.recv(): the oldest value of the channel.
Received(queue) == Head(queue)

\* api_key = Some(rx.recv().await.unwrap())
Recv ==
    /\ flow.pc = "recv"
    /\ channel # <<>>
    /\ flow' = [flow EXCEPT !.pc = "abort", !.api_key = Some(Received(channel))]
    /\ channel' = Tail(channel)
    /\ UNCHANGED <<server, conns, sent>>

\* Mutant of AbortedTask: the call of server.abort() is left out.
AbortedTask_StillRuns(task) == task

\* JoinHandle::abort on the listener's task.
AbortedTask(task) == "aborted"

\* server.abort(), and rx dropped at the end of the block.
Abort ==
    /\ flow.pc = "abort"
    /\ flow' = [flow EXCEPT !.pc = "get_user"]
    /\ server' = AbortedTask(server)
    /\ channel' = <<>>
    /\ UNCHANGED <<conns, sent>>

\* get_user and the organization prompt: the configuration configure
\* returns, or exit(1) when get_me fails.
GetUser(identity_ok, organization_id) ==
    /\ flow.pc = "get_user"
    /\ flow' = IF IdentityFatal(identity_ok)
               THEN Exit(1)
               ELSE [flow EXCEPT !.pc = "configured",
                                 !.config = TrieveConfiguration(flow.api_key.value,
                                                                organization_id, ProdUrl)]
    /\ UNCHANGED <<server, conns, channel, sent>>

\* The rest of login and the end of main.
ProcessEnd ==
    /\ flow.pc = "configured"
    /\ flow' = Exit(0)
    /\ UNCHANGED <<server, conns, channel, sent>>

\* Mutant of ServerError: the error is printed and the process goes on.
ServerError_Reported(coordinator) == coordinator

\* The map_err closure around server(): the error is printed and
\* std::process::exit(1) ends the process, whatever the coordinator is doing.
ServerError(coordinator) == [coordinator EXCEPT !.pc = "exited", !.exit = 1]

\* server: TcpListener::bind("127.0.0.1:65535"); an error ends the process
\* through configure's map_err.
Bind(bound) ==
    /\ Alive
    /\ server = "bind"
    /\ IF bound
       THEN /\ server' = "accept"
            /\ UNCHANGED flow
       ELSE /\ server' = "failed"
            /\ flow' = ServerError(flow)
    /\ UNCHANGED <<conns, channel, sent>>

\* Mutant of Accepting: handle_client is awaited in the accept loop instead
\* of spawned.
Accepting_Sequential(task) ==
    /\ task = "accept"
    /\ \A i \in DOMAIN conns : conns[i].pc \in {"done", "panicked"}

\* Mutant of Accepting: an aborted listener task still accepts.
Accepting_AfterAbort(task) == task \in {"accept", "aborted"}

\* The listener task is in its accept loop.
Accepting(task) == task = "accept"

\* server: listener.accept() returns a socket and handle_client is spawned
\* for it; request is what the client will write.
Accept(request) ==
    /\ Alive
    /\ Accepting(server)
    /\ Len(conns) < MaxConns
    /\ conns' = Append(conns, [request |-> request, read |-> "pending",
                               pc |-> "handle_read"])
    /\ UNCHANGED <<flow, server, channel, sent>>

\* server: listener.accept() returns an error.
AcceptError ==
    /\ Alive
    /\ Accepting(server)
    /\ server' = "failed"
    /\ flow' = Exit(1)
    /\ UNCHANGED <<conns, channel, sent>>

\* Mutant of Panics: unwrap_or_default() in place of unwrap(), so that a
\* missing token is sent as the empty string.
Panics_Never(token) == FALSE

\* handle_read: extract_api_key(..).unwrap()
Panics(token) == ~token.some

\* handle_read: the read returns; on Ok the token is extracted and sent
\* (the send fails silently once rx is dropped); on Err a line is printed.
HandleRead(i, read_ok) ==
    LET token == Token[conns[i].request]
    IN  /\ Alive
        /\ conns[i].pc = "handle_read"
        /\ IF ~read_ok
           THEN /\ conns' = [conns EXCEPT ![i].read = "err", ![i].pc = "handle_write"]
                /\ UNCHANGED <<channel, sent>>
           ELSE IF Panics(token)
           THEN /\ conns' = [conns EXCEPT ![i].read = "ok", ![i].pc = "panicked"]
                /\ UNCHANGED <<channel, sent>>
           ELSE /\ conns' = [conns EXCEPT ![i].read = "ok", ![i].pc = "handle_write"]
                /\ IF RxOpen
                   THEN /\ channel' = Append(channel, token.value)
                        /\ sent' = Append(sent, [conn |-> i, token |-> token.value])
                   ELSE UNCHANGED <<channel, sent>>
        /\ UNCHANGED <<flow, server>>

\* handle_write: the static response is written to the socket.
HandleWrite(i) ==
    /\ Alive
    /\ conns[i].pc = "handle_write"
    /\ conns' = [conns EXCEPT ![i].pc = "done"]
    /\ UNCHANGED <<flow, server, channel, sent>>

(***************************************************************************)
(* Overlapping invocations: each process loads, computes and stores on its *)
(* own; the store file is the only thing the processes share.              *)
(***************************************************************************)

\* An invocation without TRIEVE_NO_PROFILE and without --profile.
PlainContext ==
    [no_profile |-> FALSE, env |-> [ok |-> FALSE, settings |-> DefaultConfiguration],
     profile |-> None]

\* The process slots: two invocations can be running at the same time.
Procs == {1, 2}

\* The mutating commands, run without override and with a user who confirms
\* an overwrite.
RaceCommands ==
    {[op |-> "login", name |-> n, org |-> o] : n \in Names, o \in IdentityOrgs}
    \cup {[op |-> op, name |-> n, org |-> Nil] :
            op \in {"switch_profile", "delete_profile"}, n \in Names}
    \cup {[op |-> "switch_organization", name |-> None, org |-> 1]}

\* A slot in which no invocation has run.
IdleTask ==
    [pc |-> "idle", op |-> "none", name |-> None, org |-> Nil, snapshot |-> <<>>,
     started |-> <<>>, settings |-> DefaultConfiguration, saved |-> FALSE]

\* Mutant of SnapshotOf: the collection is read again when it is stored.
SnapshotOf_Reloaded(task) == Load(store)

\* The collection a process computes from: the one it loaded itself.
SnapshotOf(task) == task.snapshot

\* What a command makes of the collection profiles: whether it stores, and
\* the collection it stores.
CommandResult(op, name, org, settings, profiles) ==
    CASE op = "login" ->
            [saves |-> TRUE,
             profiles |-> Upsert(profiles, name, TrieveConfiguration("tr-key", org, ProdUrl),
                                 AsksOverwrite(profiles, name))]
      [] op = "switch_profile" ->
            [saves |-> ProfileFound(profiles, name),
             profiles |-> SelectByName(profiles, name)]
      [] op = "delete_profile" ->
            [saves |-> ProfileFound(profiles, name) /\ ~RefusesLast(profiles, name),
             profiles |-> Remove(profiles, name)]
      [] OTHER ->
            [saves |-> TRUE,
             profiles |-> SwitchSettings(profiles, settings, NewConfig(settings, org))]

\* A process starts: main loads the collection and resolves the settings.
\* started keeps the collection as main loaded it.
RaceStart(p, command) ==
    /\ procs.runs < MaxRuns
    /\ procs.task[p].pc \in {"idle", "done"}
    /\ procs' = [procs EXCEPT
                   !.runs = @ + 1,
                   !.task[p] = [pc |-> "loaded", op |-> command.op,
                                name |-> command.name, org |-> command.org,
                                snapshot |-> Load(store),
                                started |-> Load(store),
                                settings |-> ResolveSettings(Load(store), PlainContext).settings,
                                saved |-> FALSE]]
    /\ UNCHANGED store

\* login, once configure() has returned, loads the collection again.
RaceLoginLoad(p) ==
    /\ procs.task[p].pc = "loaded"
    /\ procs.task[p].op = "login"
    /\ procs' = [procs EXCEPT !.task[p].pc = "reloaded",
                               !.task[p].snapshot = Load(store)]
    /\ UNCHANGED store

\* The command computes its collection and, unless it exits first, hands it
\* to confy::store; the process ends.
RaceSave(p) ==
    LET task   == procs.task[p]
        result == CommandResult(task.op, task.name, task.org, task.settings,
                                SnapshotOf(task))
    IN  /\ task.pc = IF task.op = "login" THEN "reloaded" ELSE "loaded"
        /\ IF result.saves
           THEN /\ store' = Stored(result.profiles)
                /\ procs' = [procs EXCEPT !.saver = p,
                                           !.task[p].pc = "done",
                                           !.task[p].saved = TRUE]
           ELSE /\ procs' = [procs EXCEPT !.task[p].pc = "done"]
                /\ UNCHANGED store

(***************************************************************************)
(* Specifications                                                          *)
(***************************************************************************)

\* No invocation is running; saver is the slot of the process that stored
\* last, runs the number of invocations started.
RaceIdle == procs = [task |-> [p \in Procs |-> IdleTask], saver |-> 0, runs |-> 0]

\* extract_api_key has no argument yet.
PureIdle ==
    /\ req = [shape |-> "none", target |-> <<>>, text |-> <<>>]
    /\ extracted = [applied |-> FALSE, token |-> NoneString]

\* No interactive login is in progress.
AuthIdle ==
    /\ flow = [pc |-> "idle", given |-> NoneString, api_key |-> NoneString,
               browser |-> FALSE, config |-> Unconfigured, exit |-> 0]
    /\ server = "unspawned"
    /\ conns = <<>>
    /\ channel = <<>>
    /\ sent = <<>>

\* No invocation has run; the store file does not exist or cannot be read.
Init ==
    /\ store \in {[file |-> f, inner |-> <<>>] : f \in {"absent", "unreadable"}}
    /\ last = Invocation("none", "none", 0, FALSE, None, None,
                         DefaultConfiguration, DefaultConfiguration, FALSE, FALSE)
    /\ AuthIdle
    /\ PureIdle
    /\ RaceIdle

\* Inputs a command does not read are held fixed.
LoginStep ==
    /\ \E ctx \in Contexts, profile_name \in Names, identity_ok \in BOOLEAN :
         \E api_key \in LoginKeys, api_url \in LoginUrls,
            organization_id \in (IF identity_ok THEN IdentityOrgs ELSE {1}),
            answer \in (IF identity_ok /\ AsksOverwrite(Load(store), profile_name)
                        THEN BOOLEAN ELSE {FALSE}) :
           Login(ctx, api_key, api_url, identity_ok, organization_id, profile_name, answer)
    /\ UNCHANGED outsideCli

SwitchProfileStep ==
    /\ \E ctx \in Contexts, profile_name \in Names : SwitchProfile(ctx, profile_name)
    /\ UNCHANGED outsideCli

DeleteProfileStep ==
    /\ \E ctx \in Contexts, profile_name \in Names : DeleteProfile(ctx, profile_name)
    /\ UNCHANGED outsideCli

SwitchOrganizationStep ==
    /\ \E ctx \in Contexts, arg \in OrgArgs :
         \E identity_ok \in (IF arg = None THEN BOOLEAN ELSE {TRUE}),
            picked \in (IF arg = None THEN IdentityOrgs ELSE {1}) :
           SwitchOrganization(ctx, arg, identity_ok, picked)
    /\ UNCHANGED outsideCli

\* Every command.
Next ==
    \/ LoginStep
    \/ SwitchProfileStep
    \/ DeleteProfileStep
    \/ SwitchOrganizationStep

Spec == Init /\ [][Next]_vars

\* The profile commands alone: login, profile switch, profile delete.
ProfileNext ==
    \/ LoginStep
    \/ SwitchProfileStep
    \/ DeleteProfileStep

ProfileSpec == Init /\ [][ProfileNext]_vars

ListProfilesStep ==
    /\ \E ctx \in Contexts : ListProfiles(ctx)
    /\ UNCHANGED outsideCli

\* The profile commands, list included.
ListNext ==
    \/ LoginStep
    \/ SwitchProfileStep
    \/ DeleteProfileStep
    \/ ListProfilesStep

ListSpec == Init /\ [][ListNext]_vars

\* Logins that succeed, of up to one entry more than MaxProfiles.
PlainLoginStep ==
    /\ \E profile_name \in Names, organization_id \in IdentityOrgs :
         LoginUpTo(MaxProfiles + 1, PlainContext, "tr-key", ProdUrl, TRUE,
                   organization_id, profile_name, TRUE)
    /\ UNCHANGED outsideCli

PlainSwitchProfileStep ==
    /\ \E profile_name \in Names : SwitchProfile(PlainContext, profile_name)
    /\ UNCHANGED outsideCli

PlainSwitchOrganizationStep ==
    /\ \E arg \in {"uuid-0", "uuid-1"} : SwitchOrganization(PlainContext, arg, TRUE, 1)
    /\ UNCHANGED outsideCli

\* Plain invocations of login, profile switch and organization switch, on
\* collections long enough to hold a name twice around another name.
UpsertNext ==
    \/ PlainLoginStep
    \/ PlainSwitchProfileStep
    \/ PlainSwitchOrganizationStep

UpsertSpec == Init /\ [][UpsertNext]_vars

SettingsCommandStep ==
    /\ \E ctx \in Contexts, command \in SettingsCommands : SettingsCommand(ctx, command)
    /\ UNCHANGED outsideCli

\* The store commands together with the commands that only use the settings.
CliNext ==
    \/ LoginStep
    \/ SwitchProfileStep
    \/ DeleteProfileStep
    \/ SwitchOrganizationStep
    \/ SettingsCommandStep

CliSpec == Init /\ [][CliNext]_vars

RaceStartStep ==
    /\ \E p \in Procs, command \in RaceCommands : RaceStart(p, command)
    /\ UNCHANGED <<last, authVars, pureVars>>

RaceLoginLoadStep ==
    /\ \E p \in Procs : RaceLoginLoad(p)
    /\ UNCHANGED <<last, authVars, pureVars>>

RaceSaveStep ==
    /\ \E p \in Procs : RaceSave(p)
    /\ UNCHANGED <<last, authVars, pureVars>>

RaceNext ==
    \/ RaceStartStep
    \/ RaceLoginLoadStep
    \/ RaceSaveStep

\* Invocations of the mutating commands that may overlap.
RaceSpec == Init /\ [][RaceNext]_vars

\* extract_api_key on its own: a text is drawn and the function applied.
ExtractInit ==
    /\ store = [file |-> "absent", inner |-> <<>>]
    /\ last = Invocation("none", "none", 0, FALSE, None, None,
                         DefaultConfiguration, DefaultConfiguration, FALSE, FALSE)
    /\ AuthIdle
    /\ RaceIdle
    /\ \E shape \in Shapes, target \in TargetsOf(MaxPieces) :
          req = [shape |-> shape, target |-> target,
                 text |-> RequestText(shape, target)]
    /\ extracted = [applied |-> FALSE, token |-> NoneString]

ExtractStep ==
    /\ Extract
    /\ UNCHANGED <<cliVars, authVars, raceVars>>

ExtractSpec == ExtractInit /\ [][ExtractStep]_vars

\* One login: configure is entered with or without a credential, on a
\* store that stays as it is until login's own upsert.
AuthInit ==
    /\ store = [file |-> "absent", inner |-> <<>>]
    /\ last = Invocation("none", "none", 0, FALSE, None, None,
                         DefaultConfiguration, DefaultConfiguration, FALSE, FALSE)
    /\ \E given \in {NoneString, Some(GivenKey)} :
          flow = [pc |-> "configure", given |-> given, api_key |-> given,
                  browser |-> FALSE, config |-> Unconfigured, exit |-> 0]
    /\ server = "unspawned"
    /\ conns = <<>>
    /\ channel = <<>>
    /\ sent = <<>>
    /\ PureIdle
    /\ RaceIdle

GetUserStep ==
    \E identity_ok \in BOOLEAN :
      \E organization_id \in (IF identity_ok THEN IdentityOrgs ELSE {1}) :
        GetUser(identity_ok, organization_id)

\* The steps of configure and of the rest of the process.
Coordinator ==
    /\ \/ Configure
       \/ OpenBrowser
       \/ Recv
       \/ Abort
       \/ GetUserStep
       \/ ProcessEnd
    /\ UNCHANGED outsideAuth

BindStep ==
    /\ \E bound \in BOOLEAN : Bind(bound)
    /\ UNCHANGED outsideAuth

AcceptStep ==
    /\ \E request \in RequestIds : Accept(request)
    /\ UNCHANGED outsideAuth

AcceptErrorStep ==
    /\ AcceptError
    /\ UNCHANGED outsideAuth

HandleReadStep ==
    /\ \E i \in DOMAIN conns, read_ok \in BOOLEAN : HandleRead(i, read_ok)
    /\ UNCHANGED outsideAuth

HandleWriteStep ==
    /\ \E i \in DOMAIN conns : HandleWrite(i)
    /\ UNCHANGED outsideAuth

AuthNext ==
    \/ Coordinator
    \/ BindStep
    \/ AcceptStep
    \/ AcceptErrorStep
    \/ HandleReadStep
    \/ HandleWriteStep

AuthSpec == AuthInit /\ [][AuthNext]_vars

\* The runtime runs configure, the listener's bind and a connection's write
\* whenever they can step; connections and the data they carry come from
\* outside and need not come at all.
FairAuthSpec ==
    /\ AuthSpec
    /\ WF_vars(Coordinator)
    /\ WF_vars(BindStep)
    /\ WF_vars(HandleWriteStep)

(***************************************************************************)
(* Properties                                                              *)
(***************************************************************************)

\* Store invariant 1: no two entries have the same name.
NamesUnique(profiles) ==
    \A i, j \in DOMAIN profiles : profiles[i].name = profiles[j].name => i = j

SelectedCount(profiles) == Cardinality({i \in DOMAIN profiles : profiles[i].selected})

\* Store invariant 2: a non-empty collection has exactly one selected entry.
OneSelected(profiles) == profiles # <<>> => SelectedCount(profiles) = 1

\* Spec section 3, invariant 3: nil organization and empty credential.
Unprovisioned(settings) ==
    settings.organization_id = Nil /\ settings.api_key = ""

HasName(profiles, name) == \E i \in DOMAIN profiles : profiles[i].name = name

\* The invocation got past main's settings resolution into its command.
CommandRan(inv) == inv.outcome \notin {"none", "env_error", "profile_not_found"}

\* C1: after any sequence of login, profile switch and profile delete
\* commands from the store the program starts with, no two entries of the
\* persisted collection have the same name.
C1_PersistedNamesUnique == store.file = "ok" => NamesUnique(store.inner)

\* C2: after any sequence of login, profile switch and profile delete
\* commands, every non-empty persisted collection has exactly one entry
\* with selected = true.
C2_PersistedOneSelected == store.file = "ok" => OneSelected(store.inner)

\* C3: after an upsert (login) that proceeds, the persisted collection has
\* exactly one entry named name; it carries the new settings, it is the last
\* entry, and it is the only selected entry.
C3_UpsertPostcondition ==
    (last.op = "login" /\ last.outcome = "ok") =>
        LET p == store.inner
        IN  /\ store.file = "ok"
            /\ p # <<>>
            /\ Cardinality({i \in DOMAIN p : p[i].name = last.name}) = 1
            /\ p[Len(p)] = TrieveProfileInner(last.name, last.config, TRUE)
            /\ \A i \in DOMAIN p : p[i].selected => i = Len(p)

\* C4: on a store with exactly one entry, remove of that entry is refused
\* with LastProfile (exit status 1) and the store is left unchanged.
C4_LastProfileRefused ==
    [][(/\ last'.op = "delete_profile"
        /\ CommandRan(last')
        /\ Len(Load(store)) = 1
        /\ Load(store)[1].name = last'.name)
       => (/\ last'.outcome = "last_profile"
           /\ last'.exit = 1
           /\ store' = store)]_vars

\* C5: select(name) and remove(name) for a name that is not in the store
\* end with exit status 1 (NotFound once the command runs), perform no save
\* and leave the persisted store unchanged.
C5_NotFoundLeavesStore ==
    [][(/\ last'.op \in {"switch_profile", "delete_profile"}
        /\ ~HasName(Load(store), last'.name))
       => (/\ last'.exit = 1
           /\ CommandRan(last') => last'.outcome = "not_found"
           /\ ~last'.saved
           /\ store' = store)]_vars

\* C5 witness: a profile switch or delete has just failed with NotFound on
\* a persisted, non-empty store that has no entry of that name.
C5_Witness ==
    /\ last.op \in {"switch_profile", "delete_profile"}
    /\ last.outcome = "not_found"
    /\ store.file = "ok"
    /\ store.inner # <<>>
    /\ ~HasName(store.inner, last.name)

\* C6: when login asks for the overwrite confirmation and the user
\* declines, the command ends with exit status 0, saves nothing and leaves
\* the persisted store unchanged.
C6_DeclineLeavesStore ==
    [][(/\ last'.op = "login"
        /\ last'.asked
        /\ ~last'.answer)
       => (/\ last'.outcome = "cancelled"
           /\ last'.exit = 0
           /\ ~last'.saved
           /\ store' = store)]_vars

\* C6 witness: a login has just been cancelled at the confirmation, on a
\* persisted store that holds a provisioned entry of the given name.
C6_Witness ==
    /\ last.op = "login"
    /\ last.outcome = "cancelled"
    /\ store.file = "ok"
    /\ \E i \in DOMAIN store.inner :
          /\ store.inner[i].name = last.name
          /\ ~Unprovisioned(store.inner[i].settings)

\* C7: login asks for the overwrite confirmation exactly when an entry with
\* the given name exists that is provisioned, an entry being unprovisioned
\* only if its organization_id is nil and its credential is empty.
C7_AsksExactlyWhenProvisioned ==
    [][(/\ last'.op = "login"
        /\ last'.outcome \in {"ok", "cancelled"})
       => (last'.asked <=>
             \E i \in DOMAIN Load(store) :
                /\ Load(store)[i].name = last'.name
                /\ ~Unprovisioned(Load(store)[i].settings))]_vars

\* C8: every collection persisted by switch_organization has unique names
\* and, if non-empty, exactly one selected entry, however the active
\* settings were obtained.
C8_SwitchOrganizationKeepsInvariants ==
    (last.op = "switch_organization" /\ last.saved) =>
        /\ NamesUnique(store.inner)
        /\ OneSelected(store.inner)

\* C9: switch_organization persists a collection in which every entry whose
\* settings equalled the pre-switch active settings has the active settings
\* with organization_id replaced by the target and is selected, and every
\* other entry is unselected and has its original settings.
C9_SwitchOrganizationResult ==
    [][(/\ last'.op = "switch_organization"
        /\ last'.outcome = "ok")
       => LET old    == Load(store)
              new    == store'.inner
              active == last'.settings
              target == last'.config.organization_id
          IN  /\ last'.saved
              /\ store'.file = "ok"
              /\ Len(new) = Len(old)
              /\ \A i \in DOMAIN old :
                    IF old[i].settings = active
                    THEN /\ new[i].settings =
                              [active EXCEPT !.organization_id = target]
                         /\ new[i].selected
                    ELSE /\ new[i].settings = old[i].settings
                         /\ ~new[i].selected]_vars

\* C9 witness: an organization switch to another organization has just
\* persisted a collection with an updated, selected entry and an entry that
\* did not match.
C9_Witness ==
    /\ last.op = "switch_organization"
    /\ last.outcome = "ok"
    /\ last.config.organization_id # last.settings.organization_id
    /\ \E i, j \in DOMAIN store.inner :
          /\ store.inner[i].settings = last.config
          /\ store.inner[i].selected
          /\ store.inner[j].settings # last.config
          /\ store.inner[j].settings # last.settings
          /\ ~store.inner[j].selected

C11_SelectResult ==
    [][(/\ last'.op = "switch_profile"
        /\ CommandRan(last')
        /\ HasName(Load(store), last'.name))
       => LET old == Load(store)
              new == store'.inner
          IN  /\ last'.outcome = "ok"
              /\ last'.saved
              /\ store'.file = "ok"
              /\ Len(new) = Len(old)
              /\ \A i \in DOMAIN old :
                    /\ new[i].name = old[i].name
                    /\ new[i].settings = old[i].settings
                    /\ new[i].selected <=> (old[i].name = last'.name)]_vars

\* C11 witness: a profile switch has just persisted a collection of two or
\* more distinctly named entries with the named one selected.
C11_Witness ==
    /\ last.op = "switch_profile"
    /\ last.outcome = "ok"
    /\ Len(store.inner) >= 2
    /\ NamesUnique(store.inner)
    /\ \E i \in DOMAIN store.inner :
          store.inner[i].name = last.name /\ store.inner[i].selected

\* The entries of a collection without their selected flags.
Unflagged(profiles) ==
    [i \in DOMAIN profiles |->
        [name |-> profiles[i].name, settings |-> profiles[i].settings]]

\* C12: remove(name) on a store with more than one entry removes the entry
\* named name and keeps every other entry, in order, with its settings; if
\* the removed entry was selected the first remaining entry becomes
\* selected, otherwise the flags of the remaining entries are unchanged.
C12_RemoveResult ==
    [][(/\ last'.op = "delete_profile"
        /\ CommandRan(last')
        /\ Len(Load(store)) > 1
        /\ HasName(Load(store), last'.name))
       => LET old  == Load(store)
              kept == SelectSeq(old, LAMBDA p : p.name # last'.name)
              new  == store'.inner
          IN  /\ last'.outcome = "ok"
              /\ store'.file = "ok"
              /\ Unflagged(new) = Unflagged(kept)
              /\ IF old[FindByName(old, last'.name)].selected
                 THEN new # <<>> => new[1].selected
                 ELSE \A i \in DOMAIN kept : new[i].selected = kept[i].selected]_vars

\* C13: an invocation that takes its profile from --profile / TRIEVE_PROFILE
\* and runs a command other than login, profile switch and profile delete
\* leaves the selected flag of every persisted entry as it was.
C13_OverrideKeepsSelection ==
    [][(/\ last'.how = "override"
        /\ last'.op \notin {"login", "switch_profile", "delete_profile"})
       => /\ Len(Load(store')) = Len(Load(store))
          /\ \A i \in DOMAIN Load(store) :
                Load(store')[i].selected = Load(store)[i].selected]_vars

\* C20: if the identity call fails during login, the process exits with
\* status 1, nothing is saved and the persisted store is unchanged.
C20_IdentityFailureLeavesStore ==
    [][(/\ last'.op = "login"
        /\ ~last'.identity)
       => (/\ last'.outcome = "identity_error"
           /\ last'.exit = 1
           /\ ~last'.saved
           /\ store' = store)]_vars

\* C20 witness: a login has just ended on a failed identity call, with a
\* persisted store in place.
C20_Witness ==
    /\ last.op = "login"
    /\ ~last.identity
    /\ last.exit = 1
    /\ store.file = "ok"
    /\ store.inner # <<>>

\* Connection i's read completes in this step.
ReadCompletes(i) ==
    /\ i \in DOMAIN conns
    /\ conns[i].pc = "handle_read"
    /\ conns'[i].pc # "handle_read"

\* C14: when token extraction fails for a connection, nothing is sent on
\* the channel for it and the listener, the channel and the coordinator are
\* left as they were; a connection carrying a token whose read completes
\* while the coordinator holds the channel has its token put on the channel,
\* whatever happened to earlier connections.
C14_ExtractionFailureIsLocal ==
    [][\A i \in DOMAIN conns :
          /\ (ReadCompletes(i) /\ ~Token[conns[i].request].some)
                => (/\ sent' = sent
                    /\ channel' = channel
                    /\ server' = server
                    /\ flow' = flow)
          /\ (ReadCompletes(i) /\ conns'[i].read = "ok"
                /\ Token[conns[i].request].some /\ RxOpen)
                => (/\ sent' = Append(sent, [conn  |-> i,
                                             token |-> Token[conns[i].request].value])
                    /\ channel' = Append(channel, Token[conns[i].request].value)
                    /\ server' = server)]_vars

\* C14 witness: a connection's extraction failed, and the token of a
\* connection accepted after it is the credential the coordinator received.
C14_Witness ==
    /\ Len(conns) >= 2
    /\ conns[1].pc = "panicked"
    /\ Token[conns[2].request].some
    /\ sent = <<[conn |-> 2, token |-> Token[conns[2].request].value]>>
    /\ flow.api_key = Some(Token[conns[2].request].value)
    /\ flow.pc = "configured"

\* C15: every accepted connection whose read completed is in, or past, its
\* write of the static response, whether or not a token was extracted.
C15_ReadIsFollowedByWrite ==
    \A i \in DOMAIN conns :
        conns[i].read = "ok" => conns[i].pc \in {"handle_write", "done"}

\* configure has returned a configuration.
Configured == flow.pc = "configured" \/ (flow.pc = "exited" /\ flow.exit = 0)

\* C16: in an interactive login the credential the coordinator holds, and
\* the one in the settings it produces, is the first token sent on the
\* channel, whatever is sent after it.
C16_FirstTokenIsCredential ==
    (~flow.given.some /\ flow.api_key.some)
        => /\ sent # <<>>
           /\ flow.api_key.value = sent[1].token
           /\ Configured => flow.config.api_key = sent[1].token

\* C16 witness: two connections sent different tokens and the settings
\* produced carry the first.
C16_Witness ==
    /\ flow.pc = "configured"
    /\ Len(sent) >= 2
    /\ sent[2].token # sent[1].token
    /\ flow.config.api_key = sent[1].token

\* C17: once the coordinator has received a token and cancelled the
\* listener, no further connection is accepted.
C17_NoAcceptAfterAbort ==
    [][server = "aborted" => Len(conns') = Len(conns)]_vars

\* C17 witness: the listener is cancelled after a token was received, while
\* the process runs and a further connection could still have been counted.
C17_Witness ==
    /\ server = "aborted"
    /\ flow.api_key.some
    /\ Alive
    /\ Len(conns) < MaxConns

\* C18: a coordinator waiting on the channel does not wait forever: while
\* no connection comes, the wait still ends (by the timeout).
C18_WaitEnds ==
    (flow.pc = "recv" /\ conns = <<>>) ~> (flow.pc # "recv" \/ conns # <<>>)

\* C19: with a credential supplied by flag or environment the login never
\* starts the listener, never opens the browser and never waits on the
\* channel; it goes from configure's entry to the identity call with the
\* supplied credential.
C19_SuppliedKeySkipsListener ==
    flow.given.some
        => /\ server = "unspawned"
           /\ ~flow.browser
           /\ conns = <<>>
           /\ channel = <<>>
           /\ sent = <<>>
           /\ flow.pc \in {"configure", "get_user", "configured", "exited"}
           /\ flow.api_key = flow.given
           /\ Configured => flow.config.api_key = flow.given.value

\* C19 witness: configure returned the settings for a supplied credential.
C19_Witness ==
    /\ flow.given.some
    /\ flow.pc = "configured"
    /\ flow.config.api_key = GivenKey

\* The invocation that just ran found no readable store file.
RanWithoutFile == store.file # "ok" /\ CommandRan(last')

\* C21 as stated: when the persisted state is absent or unreadable the
\* command proceeds against a collection of zero entries: no name is found
\* in it and a login persists the new entry alone.
C21_AbsentLoadsEmpty ==
    [][RanWithoutFile
       => /\ last'.op \in {"switch_profile", "delete_profile"}
                => last'.outcome = "not_found"
          /\ (last'.op = "login" /\ last'.outcome = "ok")
                => Len(store'.inner) = 1]_vars

\* C21 as amended: when the persisted state is absent or unreadable no
\* command fails for it, and the command proceeds against the default
\* collection, one unprovisioned unselected entry named default.
C21_AbsentLoadsDefault ==
    [][RanWithoutFile
       => /\ last'.outcome \in {"ok", "not_found", "identity_error", "cancelled"}
          /\ last'.op \in {"switch_profile", "delete_profile"}
                => (last'.outcome = "not_found" <=> last'.name # "default")
          /\ (last'.op = "switch_profile" /\ last'.outcome = "ok")
                => store'.inner = <<TrieveProfileInner("default", DefaultConfiguration, TRUE)>>
          /\ (last'.op = "delete_profile" /\ last'.outcome = "ok")
                => store'.inner = <<>>
          /\ last'.op = "login"
                => /\ ~last'.asked
                   /\ last'.outcome = "ok"
                        => store'.inner =
                              <<DefaultProfileInner,
                                TrieveProfileInner(last'.name, last'.config, TRUE)>>]_vars

\* C21 witness: a login has just persisted the default entry followed by
\* its own.
C21_Witness ==
    /\ last.op = "login"
    /\ last.outcome = "ok"
    /\ store.inner = <<DefaultProfileInner,
                       TrieveProfileInner(last.name, last.config, TRUE)>>

\* C24: list never writes the store, and the rows it shows are the loaded
\* entries with every selected entry before every unselected one, in
\* collection order among entries of the same flag.
C24_ListIsReadOnlySorted ==
    [][(last'.op = "list_profiles" /\ CommandRan(last'))
       => /\ store' = store
          /\ ~last'.saved
          /\ last'.shown = SelectSeq(Load(store), LAMBDA p : p.selected)
                              \o SelectSeq(Load(store), LAMBDA p : ~p.selected)]_vars

\* C24 witness: a list has shown a selected entry ahead of two unselected
\* entries that precede it in the store.
C24_Witness ==
    /\ last.op = "list_profiles"
    /\ Len(last.shown) = 3
    /\ last.shown = <<store.inner[3], store.inner[1], store.inner[2]>>
    /\ store.inner[3].selected
    /\ ~store.inner[1].selected
    /\ ~store.inner[2].selected
    /\ store.inner[1] # store.inner[2]

C22_OtherNamesKeptOnce ==
    [][(last'.op = "login" /\ last'.outcome = "ok")
       => LET old == Load(store)
              new == store'.inner
          IN  \A i \in DOMAIN old :
                 old[i].name # last'.name
                    => LET hits == {j \in DOMAIN new : new[j].name = old[i].name}
                       IN  /\ Cardinality(hits) = 1
                           /\ \A j \in hits :
                                 new[j].settings =
                                    old[FindByName(old, old[i].name)].settings]_vars

\* C26: in an interactive login the listener is cancelled only once a token
\* has been received, the identity call is made only once the listener is
\* cancelled, and the listener is cancelled once: it stays cancelled and the
\* coordinator never returns to the cancel.
C26_CancelBetweenTokenAndIdentity ==
    [][/\ (server # "aborted" /\ server' = "aborted")
            => /\ flow.pc = "abort"
               /\ flow.api_key.some
               /\ sent # <<>>
       /\ (~flow.given.some /\ flow.pc = "get_user" /\ flow'.pc # "get_user")
            => server = "aborted"
       /\ server = "aborted"
            => (server' = "aborted" /\ flow'.pc # "abort")]_vars

\* C26 witness: an interactive login has made its identity call with the
\* listener cancelled.
C26_Witness ==
    /\ ~flow.given.some
    /\ flow.pc = "configured"
    /\ server = "aborted"

\* C27: the accept loop never waits for a connection's handling: while the
\* listener runs it can accept the next connection whatever the earlier
\* connections are doing, and a connection's read can complete whatever the
\* other connections are doing.
C27_AcceptNeverWaits ==
    /\ (flow.pc # "exited" /\ server = "accept" /\ Len(conns) < MaxConns)
          => ENABLED AcceptStep
    /\ \A i \in DOMAIN conns :
          (flow.pc # "exited" /\ conns[i].pc = "handle_read")
             => ENABLED (HandleRead(i, TRUE) /\ UNCHANGED outsideAuth)

\* C27 witness: the first connection's read is still pending and the token
\* of the second connection is the credential the coordinator received.
C27_Witness ==
    /\ Len(conns) >= 2
    /\ conns[1].pc = "handle_read"
    /\ sent # <<>>
    /\ sent[1].conn = 2
    /\ flow.api_key = Some(sent[1].token)

\* C28: after cancellation no connection-handling task takes any further
\* step.
C28_CancelStopsConnections ==
    [][server = "aborted" => conns' = conns]_vars

\* C29: a connection that has completed its read when the listener is
\* cancelled can still write the static response while the process runs,
\* and a connection's step after the cancellation changes neither the
\* coordinator's token and settings nor the persisted store.
C29_LateWriteIsHarmless ==
    /\ [](\A i \in DOMAIN conns :
            (server = "aborted" /\ flow.pc # "exited" /\ conns[i].pc = "handle_write")
               => ENABLED (HandleWrite(i) /\ UNCHANGED outsideAuth))
    /\ [][(server = "aborted" /\ conns' # conns)
            => (/\ flow' = flow
                /\ store' = store
                /\ channel' = channel
                /\ sent' = sent)]_vars

\* C29 witness: the listener is cancelled, the process runs, and a
\* connection that completed its read has its write still to do.
C29_Witness ==
    /\ server = "aborted"
    /\ flow.pc # "exited"
    /\ \E i \in DOMAIN conns :
          conns[i].pc = "handle_write" /\ conns[i].read = "ok"

\* The marker apiKey= stands at position k of target.
MarkerAt(target, k) ==
    /\ k + Len(api_key_prefix) - 1 <= Len(target)
    /\ \A j \in 1..Len(api_key_prefix) : target[k + j - 1] = api_key_prefix[j]

\* value is the part of target just after its first apiKey=, up to the next
\* '&' or the end of target.
ValueOfFirstMarker(target, value) ==
    \E k \in 1..Len(target) :
        /\ MarkerAt(target, k)
        /\ \A earlier \in 1..(k - 1) : ~MarkerAt(target, earlier)
        /\ LET from == k + Len(api_key_prefix)
           IN  \E to \in (from - 1)..Len(target) :
                  /\ value = SubSeq(target, from, to)
                  /\ \A j \in from..to : target[j] # "&"
                  /\ to = Len(target) \/ target[to + 1] = "&"

\* C23: for a text whose first line has a request target containing
\* apiKey=, extract_api_key returns the part of the target just after the
\* first apiKey= up to the next '&' or the end of the target; it returns no
\* token when the first line has no target or the target has no apiKey=.
C23_ExtractsFirstMarkerValue ==
    extracted.applied
        => IF /\ req.shape \in {"full", "bare"}
              /\ \E k \in 1..Len(req.target) : MarkerAt(req.target, k)
           THEN /\ extracted.token.some
                /\ ValueOfFirstMarker(req.target, extracted.token.value)
           ELSE extracted.token = NoneString

\* C23 witness: the target /?apiKey=AB& of a full request line gave AB.
C23_Witness ==
    /\ extracted.applied
    /\ req.shape = "full"
    /\ req.target = <<"/", "?">> \o api_key_prefix \o <<"A", "B", "&">>
    /\ extracted.token = Some(<<"A", "B">>)

\* C30: when mutating invocations overlap, every change of the persisted
\* collection is one whole collection stored by one process and is what
\* that process's command makes of the snapshot the process loaded itself,
\* whatever other processes stored in between; so the persisted collection
\* is always the one written by the process that stored last.
C30_LastSaverWins ==
    [][store' # store =>
        \E p \in Procs :
            LET task == procs.task[p]
            IN  /\ procs'.saver = p
                /\ procs'.task[p].pc = "done"
                /\ \A q \in Procs \ {p} : procs'.task[q] = procs.task[q]
                /\ store' = Stored(CommandResult(task.op, task.name, task.org,
                                                 task.settings, task.snapshot).profiles)]_vars

\* C30 witness, a lost update: login work and organization switch both
\* loaded the default collection, login stored first, organization switch
\* stored last, and the persisted collection has no entry work.
C30_Witness ==
    /\ procs.task[1].op = "login" /\ procs.task[1].name = "work"
    /\ procs.task[1].pc = "done" /\ procs.task[1].saved
    /\ procs.task[2].op = "switch_organization"
    /\ procs.task[2].pc = "done" /\ procs.task[2].saved
    /\ procs.task[2].snapshot = DefaultProfile
    /\ procs.saver = 2
    /\ store.file = "ok"
    /\ \A i \in DOMAIN store.inner : store.inner[i].name # "work"

\* C31: after any sequence of login, profile switch, profile delete and
\* organization switch from the state without a store file, the persisted
\* collection is never empty.
C31_PersistedNeverEmpty == store.file = "ok" => store.inner # <<>>

\* C32: after a login that completed with settings s, the next invocation
\* run without --profile and without TRIEVE_NO_PROFILE resolves its active
\* settings to s, taken from the selected entry.
C32_NextInvocationUsesLogin ==
    [][(/\ last.op = "login" /\ last.outcome = "ok"
        /\ last'.op = "list_profiles"
        /\ last'.how \in {"selected", "default"})
          => (last'.how = "selected" /\ last'.settings = last.config)]_vars

\* C32 witness: profile list, run without override on a collection of
\* several entries whose only selected entry is the pushed last one, resolved
\* that entry's provisioned settings.
C32_Witness ==
    /\ last.op = "list_profiles" /\ last.how = "selected"
    /\ Len(store.inner) >= 2
    /\ \A i \in DOMAIN store.inner : store.inner[i].selected <=> i = Len(store.inner)
    /\ last.settings = store.inner[Len(store.inner)].settings
    /\ last.settings.organization_id # Nil

\* An entry with entry's name and settings is in profiles.
Holds(profiles, entry) ==
    \E i \in DOMAIN profiles :
        profiles[i].name = entry.name /\ profiles[i].settings = entry.settings

\* C33: a profile that another invocation persisted while login was waiting
\* for the token (it was not there when the login process started, it is
\* there when the interactive flow has finished) and that does not carry
\* the login's own name is still in the collection login persists.
C33_ArrivedProfileKept ==
    [][\A p \in Procs :
          LET task == procs.task[p]
          IN  (/\ task.op = "login" /\ task.pc = "reloaded"
               /\ procs'.task[p].pc = "done")
                => \A i \in DOMAIN task.snapshot :
                      (/\ task.snapshot[i].name # task.name
                       /\ ~Holds(task.started, task.snapshot[i]))
                        => Holds(store'.inner, task.snapshot[i])]_vars

\* i is the first position of profiles whose entry satisfies Test.
FirstWith(profiles, i, Test(_)) ==
    /\ i \in DOMAIN profiles
    /\ Test(profiles[i])
    /\ \A j \in 1..(i - 1) : ~Test(profiles[j])

\* The precedence of C34 for the collection profiles and the context ctx.
Precedence(profiles, ctx) ==
    LET r        == ResolveSettings(profiles, ctx)
        Named(e) == e.name = ctx.profile
        Chosen(e) == e.selected
    IN  IF ctx.no_profile
        THEN ctx.env.ok => (r.ok /\ r.settings = ctx.env.settings)
        ELSE IF ctx.profile # None
        THEN IF \E i \in DOMAIN profiles : Named(profiles[i])
             THEN /\ r.ok
                  /\ \E i \in DOMAIN profiles :
                        FirstWith(profiles, i, Named) /\ r.settings = profiles[i].settings
             ELSE ~r.ok
        ELSE IF \E i \in DOMAIN profiles : Chosen(profiles[i])
        THEN /\ r.ok
             /\ \E i \in DOMAIN profiles :
                   FirstWith(profiles, i, Chosen) /\ r.settings = profiles[i].settings
        ELSE r.ok /\ r.settings = DefaultConfiguration

C35_SwitchOrganizationFrame ==
    [][(last'.op = "switch_organization" /\ last'.outcome = "ok")
          => LET old == Load(store)
                 new == store'.inner
             IN  /\ Len(new) = Len(old)
                 /\ \A i \in DOMAIN old :
                       /\ new[i].name = old[i].name
                       /\ new[i].settings.api_key = old[i].settings.api_key
                       /\ new[i].settings.api_url = old[i].settings.api_url]_vars

\* C35 witness: an organization switch has given a provisioned entry of a
\* collection of several entries another organization.
C35_Witness ==
    /\ last.op = "switch_organization" /\ last.outcome = "ok"
    /\ last.config.organization_id # last.settings.organization_id
    /\ last.settings.api_key # ""
    /\ Len(store.inner) >= 2
    /\ \E i \in DOMAIN store.inner :
          store.inner[i].selected /\ store.inner[i].settings = last.config

\* C36: the token the coordinator adopts from the channel as its credential
\* is never the empty string.
C36_AdoptedTokenNotEmpty ==
    (~flow.given.some /\ flow.api_key.some) => flow.api_key.value # <<>>

\* C37: once the listener has failed to bind its port (the server task has
\* failed and no connection was ever accepted) the login process has ended
\* with a non-zero status (it is not waiting on the token channel), no
\* token was adopted, and the store is as it was.
C37_BindFailureEndsLogin ==
    (server = "failed" /\ conns = <<>>)
        => /\ flow.pc = "exited"
           /\ flow.exit # 0
           /\ ~flow.api_key.some
           /\ store = [file |-> "absent", inner |-> <<>>]

\* C37 witness: a login without supplied credential whose listener could not
\* bind has ended with status 1 after the browser was opened.
C37_Witness ==
    /\ server = "failed"
    /\ ~flow.given.some
    /\ flow.browser
    /\ flow.exit = 1

====
